---- MODULE Spec2Model ----
(***************************************************************************)
(* State-machine model of steampy.market.SteamMarket                       *)
(* (src/steampy/market.py).  One call runs at a time; every network round   *)
(* trip and every call into the confirmation service is one step.           *)
(*                                                                         *)
(* Optional JSON fields are sequences of length <= 1: <<>> is an absent     *)
(* field (dict.get gives None), <<v>> is a field holding v.                 *)
(***************************************************************************)
EXTENDS Integers, Sequences, FiniteSets, TLC

\* ------------------------------------------------------------------ bounds
MaxConfirmations == 2   \* outstanding confirmations the service may list
MaxKeys == 2            \* distinct sell-listing ids
MaxExtraPages == 5      \* the largest n_total is BULK_LIMIT + MaxExtraPages * PAGE_SIZE
MaxWhole == 1           \* largest whole part of a unit price
MaxQuantity == 3        \* largest quantity of a buy order

\* ------------------------------------------------------- program constants
CONFIRMATION_REQUIRED == 22
CANONICAL_SUCCESS == 1
HTTP_OK == 200
TOO_MANY_REQUESTS == 429
SERVER_ERROR == 500
NO_STATUS == 0
BULK_LIMIT == 1000
PAGE_SIZE == 100
BULK_COUNT == -1

\* ------------------------------------------------------------ value spaces
None == <<>>
Some(v) == <<v>>

SessionIds == {"s1", "s2"}
SteamGuards == {"g1", "g2"}
\* the (steamguard, session_id) pairs a login hands to _set_login_executed
Logins == {<<"g1", "s1">>, <<"g2", "s2">>}

Messages == {None, Some(""), Some("m1")}
WalletMessages == {None, Some("w1")}
ConfirmationIds == {None, Some(""), Some("c1"), Some("c2")}
SuccessCodes == {None, Some(CANONICAL_SUCCESS), Some(CONFIRMATION_REQUIRED)}

\* wallet_info: absent, or a non-empty JSON object
WalletInfos ==
    {[type |-> "absent", success |-> None, message |-> None]} \cup
    [type : {"object"}, success : {None, Some(CANONICAL_SUCCESS)}, message : WalletMessages]

\* confirmation: absent key, JSON null, or a JSON object
Confirmations ==
    {[type |-> "absent", confirmation_id |-> None],
     [type |-> "null", confirmation_id |-> None]} \cup
    [type : {"object"}, confirmation_id : ConfirmationIds]

BuyResponses ==
    [success : SuccessCodes, wallet_info : WalletInfos,
     confirmation : Confirmations, message : Messages]

\* exception classes the except clauses of buy_item tell apart
ServiceExceptions == {"KeyError", "TypeError", "Exception"}

Keys == 1..MaxKeys
Vals == {"v1", "v2"}
BuyIds == {"b1"}

\* a listing collection: sell listings keyed by listing id, buy listings
PartialFns(D, R) == UNION {[S -> R] : S \in SUBSET D}
Collections == [sell_listings : PartialFns(Keys, Vals), buy_listings : SUBSET BuyIds]
EmptyCollection == [sell_listings |-> <<>>, buy_listings |-> {}]

\* what get_market_sell_listings_from_api and
\* merge_items_with_descriptions_from_listing make of a bulk or page answer
FetchedCollections == Collections

\* values of the showing/total markers of the landing page
ShowingCounts == {0, 50, 200}
TotalCounts ==
    {0, 50, 200, BULK_LIMIT - 1, BULK_LIMIT,
     BULK_LIMIT + MaxExtraPages * PAGE_SIZE}

VARIABLES
    was_login_executed, steam_guard, session_id,   \* SteamMarket fields
    op,               \* the operation of the current (or last finished) call
    pc,               \* position of the current call; "idle" between calls
    log,              \* requests and confirmation-service calls of this call, in order
    result,           \* outcome of the call: none, return or raise
    response,         \* buy_item: Some(first purchase response) once it arrived
    final_response,   \* buy_item: Some(response to the resubmission)
    data,             \* buy_item: the 'confirmation' entry of the payload
    confirmations,    \* buy_item: confirmations listed and not yet accepted
    returned,         \* buy_item: Some(response handed to the caller)
    has_markers,      \* get_my_market_listings: the page shows the markers
    n_showing, n_total, loop_i,   \* get_my_market_listings locals
    listings,         \* get_my_market_listings: running collection
    listings_2,       \* get_my_market_listings: Some(collection of the last fetch)
    fetched_keys,     \* sell-listing ids seen in any fetch of this call
    returned_listings, \* get_my_market_listings: Some(collection) once returned
    asset,            \* create_sell_order: the asset being sold
    reply,            \* single-request operations: Some(parsed answer to the request)
    order,            \* create_buy_order: Some(price, quantity and price_total sent)
    returned_reply,   \* single-request operations: Some(reply) once returned
    serialised,       \* two callers: they run their calls one after the other
    seller_pc, seller_asset, seller_outcome,   \* the caller in create_sell_order
    buyer_pc, buyer_confirmations, buyer_outcome,   \* the caller in buy_item
    pending,          \* the account's outstanding confirmations at the service
    consumed          \* accepted confirmations, each with the call that accepted it

vars == <<was_login_executed, steam_guard, session_id, op, pc, log, result,
          response, final_response, data, confirmations, returned, has_markers, n_showing, n_total, loop_i,
          listings, listings_2, fetched_keys, returned_listings, asset, reply, order, returned_reply,
          serialised, seller_pc, seller_asset, seller_outcome,
          buyer_pc, buyer_confirmations, buyer_outcome, pending, consumed>>

loginVars == <<was_login_executed, steam_guard, session_id>>
buyVars == <<response, final_response, data, confirmations, returned>>
listVars == <<has_markers, n_showing, n_total, loop_i, listings, listings_2, fetched_keys, returned_listings>>
simpleVars == <<asset, reply, order, returned_reply>>
sharedVars == <<serialised, seller_pc, seller_asset, seller_outcome,
                buyer_pc, buyer_confirmations, buyer_outcome, pending, consumed>>
callVars == <<loginVars, op, pc, log, result, buyVars, listVars, simpleVars>>

\* ------------------------------------------------------------ log entries
\* status is the HTTP status of the answer, NO_STATUS when the call raised;
\* target is the asset of a targeted confirmation; raised names the exception
\* a confirmation-service call ended with
Get(url, start, count, status) ==
    [type |-> "GET", url |-> url, start |-> start, count |-> count,
     confirmation |-> "", status |-> status, target |-> "", raised |-> ""]
Post(url, confirmation, status) ==
    [type |-> "POST", url |-> url, start |-> 0, count |-> 0,
     confirmation |-> confirmation, status |-> status, target |-> "", raised |-> ""]
ServiceCall(kind, count) ==
    [type |-> kind, url |-> "confirmation", start |-> 0, count |-> count,
     confirmation |-> "", status |-> NO_STATUS, target |-> "", raised |-> ""]
ConfirmSell(asset_id) ==
    [ServiceCall("CONFIRM_SELL", 1) EXCEPT !.target = asset_id]
Failed(call, e) == [call EXCEPT !.raised = e]

NoResult == [kind |-> "none", exc |-> "", site |-> "", message |-> None]
Return == [kind |-> "return", exc |-> "", site |-> "", message |-> None]
Raise(exc, site, message) ==
    [kind |-> "raise", exc |-> exc, site |-> site, message |-> message]

TransportError == Raise("Exception", "transport", None)

Idle == pc = "idle"

\* ----------------------------------------------------------------- Init
\* no caller is inside a call and the account has nothing outstanding
NoCallers ==
    /\ seller_pc = "idle"
    /\ seller_asset = ""
    /\ seller_outcome = "none"
    /\ buyer_pc = "idle"
    /\ buyer_confirmations = {}
    /\ buyer_outcome = "none"
    /\ pending = {}
    /\ consumed = {}

\* lines 23-27: the fields after __init__
Constructed ==
    /\ was_login_executed = FALSE
    /\ steam_guard = None
    /\ session_id = None

NoCall ==
    /\ op = "none"
    /\ pc = "idle"
    /\ log = <<>>
    /\ result = NoResult
    /\ response = None
    /\ final_response = None
    /\ data = "0"
    /\ confirmations = 0
    /\ returned = None
    /\ has_markers = FALSE
    /\ n_showing = 0
    /\ n_total = 0
    /\ loop_i = 0
    /\ listings = EmptyCollection
    /\ listings_2 = None
    /\ fetched_keys = {}
    /\ returned_listings = None
    /\ asset = ""
    /\ reply = None
    /\ order = None
    /\ returned_reply = None

Init ==
    /\ Constructed
    /\ NoCall
    /\ serialised = TRUE
    /\ NoCallers

\* locals of a fresh call
FreshBuy ==
    /\ response' = None
    /\ final_response' = None
    /\ data' = "0"
    /\ confirmations' = 0
    /\ returned' = None
FreshList ==
    /\ has_markers' = FALSE
    /\ n_showing' = 0
    /\ n_total' = 0
    /\ loop_i' = 0
    /\ listings' = EmptyCollection
    /\ listings_2' = None
    /\ fetched_keys' = {}
    /\ returned_listings' = None

FreshSimple ==
    /\ asset' = ""
    /\ reply' = None
    /\ order' = None
    /\ returned_reply' = None

\* a call that ends in its first step
Finish(name, entries, res) ==
    /\ op' = name
    /\ pc' = "done"
    /\ log' = entries
    /\ result' = res

\* a login that hands over the guard record only
SetLoginExecuted_GuardOnly ==
    /\ Idle
    /\ \E login \in Logins : steam_guard' = Some(login[1])
    /\ was_login_executed' = TRUE
    /\ UNCHANGED <<session_id, sharedVars, op, pc, log, result, buyVars, listVars, simpleVars>>

\* lines 29-32: _set_login_executed, whenever the client calls it
SetLoginExecuted ==
    /\ Idle
    /\ \E login \in Logins :
        /\ steam_guard' = Some(login[1])
        /\ session_id' = Some(login[2])
    /\ was_login_executed' = TRUE
    /\ UNCHANGED <<sharedVars, op, pc, log, result, buyVars, listVars, simpleVars>>

\* steampy.utils.login_required: the wrapper runs body only when logged in
LoginRequired(name, body) ==
    IF ~was_login_executed
    THEN /\ Finish(name, <<>>, Raise("LoginRequired", "login_required", None))
         /\ FreshBuy /\ FreshList /\ FreshSimple
         /\ UNCHANGED <<loginVars, sharedVars>>
    ELSE body

\* ================================================================ buy_item
Truthy(field) == field # None /\ field # Some("")

\* a wallet success that also asks for the top-level success code
WalletSuccess_RequiresTopLevel(r) ==
    /\ r.wallet_info.type = "object"
    /\ r.wallet_info.success = Some(CANONICAL_SUCCESS)
    /\ r.success = Some(CANONICAL_SUCCESS)

\* line 200: response.get('wallet_info') and ...get('success') == 1
WalletSuccess(r) ==
    /\ r.wallet_info.type = "object"
    /\ r.wallet_info.success = Some(CANONICAL_SUCCESS)

\* line 203: success == 22 and response.get('confirmation', {}).get('confirmation_id')
\* The default {} only replaces an absent key: a JSON null has no .get
ConfirmationRequested(r) ==
    IF r.success # Some(CONFIRMATION_REQUIRED) THEN "no"
    ELSE IF r.confirmation.type = "null" THEN "AttributeError"
    ELSE IF Truthy(r.confirmation.confirmation_id) THEN "yes"
    ELSE "no"

\* a payload that keeps its initial '0'
ConfirmationPayload_Unchanged(r) == "0"

\* lines 205-206: data['confirmation'] = response['confirmation']['confirmation_id']
ConfirmationPayload(r) == r.confirmation.confirmation_id[1]

\* lines 219-221
FailureMessage(r) ==
    IF ~Truthy(r.message) /\ r.wallet_info.type = "object"
    THEN r.wallet_info.message
    ELSE r.message

\* lines 214-217: the except clauses around the confirmation step
ExceptHandler(e) ==
    IF e \in {"KeyError", "TypeError"}
    THEN Raise("ApiException", "invalid_confirmation_data", None)
    ELSE Raise("ApiException", "second_confirmation_step", Some(e))

\* a resubmission answer that asks for a confirmation starts the step again
AfterResubmit_Escalate(r) ==
    IF ConfirmationRequested(r) = "yes" THEN "buy_get_confirmations" ELSE "done"

\* line 213: return final_response, whatever it holds
AfterResubmit(r) == "done"

\* lines 196-222 up to the first call into the confirmation service
BuyItemBody ==
    /\ op' = "buy_item"
    /\ FreshList
    /\ FreshSimple
    /\ UNCHANGED <<loginVars, sharedVars>>
    /\ final_response' = None
    /\ confirmations' = 0
    /\ \/ \* line 183: no sessionid cookie
          /\ log' = <<>>
          /\ pc' = "done"
          /\ result' = Raise("KeyError", "cookies", None)
          /\ response' = None /\ returned' = None /\ data' = "0"
       \/ \* lines 196-198: the transport or .json() raises
          /\ log' = <<Post("buylisting", "0", NO_STATUS)>>
          /\ pc' = "done"
          /\ result' = TransportError
          /\ response' = None /\ returned' = None /\ data' = "0"
       \/ \E r \in BuyResponses :
          /\ log' = <<Post("buylisting", "0", HTTP_OK)>>
          /\ response' = Some(r)
          /\ IF WalletSuccess(r)
             THEN /\ pc' = "done"
                  /\ result' = Return
                  /\ returned' = Some(r)
                  /\ data' = "0"
             ELSE /\ returned' = None
                  /\ CASE ConfirmationRequested(r) = "AttributeError" ->
                            /\ pc' = "done"
                            /\ result' = Raise("AttributeError", "line203", None)
                            /\ data' = "0"
                       [] ConfirmationRequested(r) = "yes" ->
                            /\ pc' = "buy_get_confirmations"
                            /\ result' = NoResult
                            /\ data' = ConfirmationPayload(r)
                       [] OTHER ->
                            /\ pc' = "done"
                            /\ result' = Raise("ApiException", "failed_to_buy", FailureMessage(r))
                            /\ data' = "0"

\* buy_item without its decorator
BuyItem_Undecorated ==
    /\ Idle
    /\ BuyItemBody

\* lines 172-173: @login_required def buy_item
BuyItem ==
    /\ Idle
    /\ LoginRequired("buy_item", BuyItemBody)

\* line 167: con_executor._get_confirmations()
BuyGetConfirmations ==
    /\ pc = "buy_get_confirmations"
    /\ \/ \E e \in ServiceExceptions :
            /\ log' = Append(log, Failed(ServiceCall("LIST", 0), e))
            /\ pc' = "done"
            /\ result' = ExceptHandler(e)
            /\ UNCHANGED confirmations
       \/ \E n \in 0..MaxConfirmations :
            /\ log' = Append(log, ServiceCall("LIST", n))
            /\ confirmations' = n
            /\ pc' = IF n = 0 THEN "buy_resubmit" ELSE "buy_send_confirmation"
            /\ UNCHANGED result
    /\ UNCHANGED <<loginVars, sharedVars, op, response, final_response, data, returned, listVars, simpleVars>>

\* an accept loop that goes on after a failed accept
BuySendConfirmation_SwallowFailure ==
    /\ pc = "buy_send_confirmation"
    /\ \/ \E e \in ServiceExceptions :
            log' = Append(log, Failed(ServiceCall("ACCEPT", 1), e))
       \/ log' = Append(log, ServiceCall("ACCEPT", 1))
    /\ confirmations' = confirmations - 1
    /\ pc' = IF confirmations = 1 THEN "buy_resubmit" ELSE "buy_send_confirmation"
    /\ UNCHANGED <<loginVars, sharedVars, op, result, response, final_response, data, returned, listVars, simpleVars>>

\* lines 168-169: one iteration of the accept loop
BuySendConfirmation ==
    /\ pc = "buy_send_confirmation"
    /\ \/ \E e \in ServiceExceptions :
            /\ log' = Append(log, Failed(ServiceCall("ACCEPT", 1), e))
            /\ pc' = "done"
            /\ result' = ExceptHandler(e)
            /\ UNCHANGED confirmations
       \/ /\ log' = Append(log, ServiceCall("ACCEPT", 1))
          /\ confirmations' = confirmations - 1
          /\ pc' = IF confirmations = 1 THEN "buy_resubmit" ELSE "buy_send_confirmation"
          /\ UNCHANGED result
    /\ UNCHANGED <<loginVars, sharedVars, op, response, final_response, data, returned, listVars, simpleVars>>

\* lines 208-213: sleep, then post the payload again
BuyResubmit ==
    /\ pc = "buy_resubmit"
    /\ \/ /\ log' = Append(log, Post("buylisting", data, NO_STATUS))
          /\ pc' = "done"
          /\ result' = ExceptHandler("Exception")
          /\ UNCHANGED <<returned, final_response>>
       \/ \E r \in BuyResponses :
          /\ log' = Append(log, Post("buylisting", data, HTTP_OK))
          /\ final_response' = Some(r)
          /\ pc' = AfterResubmit(r)
          /\ IF pc' = "done"
             THEN result' = Return /\ returned' = final_response'
             ELSE UNCHANGED <<result, returned>>
    /\ UNCHANGED <<loginVars, sharedVars, op, response, data, confirmations, listVars, simpleVars>>

\* ================================================== get_my_market_listings
Statuses == {HTTP_OK, TOO_MANY_REQUESTS, SERVER_ERROR}

\* a merge in which the entry already held wins
Overlay_EarlierWins(a, b) ==
    [k \in (DOMAIN a) \cup (DOMAIN b) |-> IF k \in DOMAIN a THEN a[k] ELSE b[k]]

\* lines 95 and 110: {**listings['sell_listings'], **listings_2['sell_listings']}
Overlay(a, b) ==
    [k \in (DOMAIN a) \cup (DOMAIN b) |-> IF k \in DOMAIN b THEN b[k] ELSE a[k]]

\* a merge that also folds the buy listings of the fetch in
MergeFetch_UnionBuy(coll, fetch) ==
    [sell_listings |-> Overlay(coll.sell_listings, fetch.sell_listings),
     buy_listings |-> coll.buy_listings \cup fetch.buy_listings]

\* lines 95 and 110: only the sell listings of the fetch are folded in
MergeFetch(coll, fetch) ==
    [coll EXCEPT !.sell_listings = Overlay(coll.sell_listings, fetch.sell_listings)]

\* a threshold that lets the limit itself through
UseBulk_Inclusive(showing, total) == showing < total /\ total <= BULK_LIMIT

\* line 83
UseBulk(showing, total) == showing < total /\ total < BULK_LIMIT

\* a range that includes its upper end
InRange_Inclusive(i, total) == i <= total

\* line 97: whether range(0, n_total, 100) still has the value i
InRange(i, total) == i < total

\* line 98: start={n_showing + i}
PageStart(showing, i) == showing + i

ListingsHttpError == Raise("ApiException", "listings_http", None)

\* a check that only knows the rate-limit status
StatusFails_OnlyRateLimit(st) == st = TOO_MANY_REQUESTS

\* lines 65, 86 and 100: response.status_code != HTTPStatus.OK
StatusFails(st) == st # HTTP_OK

\* a page that is always taken to show the markers
HasMarkers_Always(markers) == TRUE

\* line 75: '<span id="tabContentsMyActiveMarketListings_end">' in response.text
HasMarkers(markers) == markers

\* lines 64-83, up to the first follow-up request
GetMyMarketListingsBody ==
    /\ op' = "get_my_market_listings"
    /\ FreshBuy
    /\ FreshSimple
    /\ UNCHANGED <<loginVars, sharedVars>>
    /\ loop_i' = 0
    /\ listings_2' = None
    /\ \/ \* line 64: the transport raises
          /\ log' = <<Get("market", 0, 0, NO_STATUS)>>
          /\ result' = TransportError
          /\ pc' = "done"
          /\ listings' = EmptyCollection
          /\ fetched_keys' = {}
          /\ has_markers' = FALSE
          /\ n_showing' = 0 /\ n_total' = 0
          /\ returned_listings' = None
       \/ \E st \in Statuses :
          /\ log' = <<Get("market", 0, 0, st)>>
          /\ IF StatusFails(st)
             THEN \* lines 65-66
                  /\ result' = ListingsHttpError
                  /\ pc' = "done"
                  /\ listings' = EmptyCollection
                  /\ fetched_keys' = {}
                  /\ has_markers' = FALSE
                  /\ n_showing' = 0 /\ n_total' = 0
                  /\ returned_listings' = None
             ELSE \* lines 68-83
                  \E inline \in Collections, markers \in BOOLEAN :
                  /\ listings' = inline
                  /\ fetched_keys' = DOMAIN inline.sell_listings
                  /\ has_markers' = markers
                  /\ IF ~HasMarkers(markers)
                     THEN \* line 75 is false: line 112
                          /\ n_showing' = 0 /\ n_total' = 0
                          /\ pc' = "done"
                          /\ result' = Return
                          /\ returned_listings' = Some(inline)
                     ELSE \E showing \in ShowingCounts, total \in TotalCounts :
                          /\ n_showing' = showing
                          /\ n_total' = total
                          /\ IF UseBulk(showing, total)
                             THEN /\ pc' = "listings_bulk"
                                  /\ result' = NoResult
                                  /\ returned_listings' = None
                             ELSE IF InRange(0, total)
                             THEN /\ pc' = "listings_page"
                                  /\ result' = NoResult
                                  /\ returned_listings' = None
                             ELSE /\ pc' = "done"
                                  /\ result' = Return
                                  /\ returned_listings' = Some(inline)

GetMyMarketListings ==
    /\ Idle
    /\ LoginRequired("get_my_market_listings", GetMyMarketListingsBody)

\* lines 84-95 and 112
ListingsBulk ==
    /\ pc = "listings_bulk"
    /\ pc' = "done"
    /\ \/ /\ log' = Append(log, Get("mylistings/render", n_showing, BULK_COUNT, NO_STATUS))
          /\ result' = TransportError
          /\ UNCHANGED <<listings, listings_2, fetched_keys, returned_listings>>
       \/ \E st \in Statuses :
          /\ log' = Append(log, Get("mylistings/render", n_showing, BULK_COUNT, st))
          /\ IF StatusFails(st)
             THEN /\ result' = ListingsHttpError
                  /\ UNCHANGED <<listings, listings_2, fetched_keys, returned_listings>>
             ELSE \E fetch \in FetchedCollections :
                  /\ listings_2' = Some(fetch)
                  /\ listings' = MergeFetch(listings, fetch)
                  /\ fetched_keys' = fetched_keys \cup DOMAIN fetch.sell_listings
                  /\ result' = Return
                  /\ returned_listings' = Some(listings')
    /\ UNCHANGED <<loginVars, sharedVars, op, buyVars, simpleVars, has_markers, n_showing, n_total, loop_i>>

\* lines 97-110, one iteration, and 112 after the last one
ListingsPage ==
    /\ pc = "listings_page"
    /\ \/ /\ log' = Append(log, Get("mylistings", PageStart(n_showing, loop_i), PAGE_SIZE, NO_STATUS))
          /\ result' = TransportError
          /\ pc' = "done"
          /\ UNCHANGED <<listings, listings_2, fetched_keys, returned_listings, loop_i>>
       \/ \E st \in Statuses :
          /\ log' = Append(log, Get("mylistings", PageStart(n_showing, loop_i), PAGE_SIZE, st))
          /\ IF StatusFails(st)
             THEN /\ result' = ListingsHttpError
                  /\ pc' = "done"
                  /\ UNCHANGED <<listings, listings_2, fetched_keys, returned_listings, loop_i>>
             ELSE \E fetch \in FetchedCollections :
                  /\ listings_2' = Some(fetch)
                  /\ listings' = MergeFetch(listings, fetch)
                  /\ fetched_keys' = fetched_keys \cup DOMAIN fetch.sell_listings
                  /\ loop_i' = loop_i + PAGE_SIZE
                  /\ IF InRange(loop_i', n_total)
                     THEN /\ pc' = "listings_page"
                          /\ UNCHANGED <<result, returned_listings>>
                     ELSE /\ pc' = "done"
                          /\ result' = Return
                          /\ returned_listings' = Some(listings')
    /\ UNCHANGED <<loginVars, sharedVars, op, buyVars, simpleVars, has_markers, n_showing, n_total>>

\* ============================================== single-request operations
\* what these operations read of a response: the status, whether the body
\* parses as JSON, and the fields of the parsed body
SimpleSuccess == {None, Some(0), Some(CANONICAL_SUCCESS), Some(CONFIRMATION_REQUIRED)}
Replies ==
    [status : Statuses, success : SimpleSuccess,
     needs_mobile_confirmation : BOOLEAN, pending_message : BOOLEAN,
     source : {"submit"}]
SellConfirmResults ==
    [status : {HTTP_OK}, success : {Some(0), Some(CANONICAL_SUCCESS)},
     needs_mobile_confirmation : {FALSE}, pending_message : {FALSE},
     source : {"confirm_sell_listing"}]
Assets == {"a1", "a2"}

\* ---- create_buy_order: price_total = str(Decimal(price) * Decimal(quantity))
\* decimal strings are sequences of the characters "0".."9" and "."
DigitChars == <<"0", "1", "2", "3", "4", "5", "6", "7", "8", "9">>
DigitOf(c) == CHOOSE d \in 0..9 : DigitChars[d + 1] = c
Digit(d) == DigitChars[d + 1]

\* unit prices as the caller writes them: whole, one place, two places
Tenths == {5}
Cents == {5, 33, 50, 99}
Prices ==
    {<<Digit(w)>> : w \in 0..MaxWhole} \cup
    {<<Digit(w), ".", Digit(t)>> : w \in 0..MaxWhole, t \in Tenths} \cup
    {<<Digit(w), ".", Digit(c \div 10), Digit(c % 10)>> : w \in 0..MaxWhole, c \in Cents}
Quantities == 0..MaxQuantity

RECURSIVE Coefficient(_)
Coefficient(digits) ==
    IF digits = <<>> THEN 0
    ELSE 10 * Coefficient(SubSeq(digits, 1, Len(digits) - 1)) + DigitOf(digits[Len(digits)])

\* Decimal(str): the digits as an integer coefficient, the places as exponent
Decimal(s) ==
    LET dots == {i \in DOMAIN s : s[i] = "."}
        digits == SelectSeq(s, LAMBDA c : c # ".")
    IN [coeff |-> Coefficient(digits),
        exp |-> IF dots = {} THEN 0 ELSE (CHOOSE i \in dots : TRUE) - Len(s)]

\* Decimal(int)
DecimalOfInt(n) == [coeff |-> n, exp |-> 0]

\* a product that keeps one decimal place fewer than its operands carry
DecimalMul_DropPlace(a, b) ==
    IF a.exp + b.exp < 0
    THEN [coeff |-> (a.coeff * b.coeff) \div 10, exp |-> a.exp + b.exp + 1]
    ELSE [coeff |-> a.coeff * b.coeff, exp |-> a.exp + b.exp]

\* Decimal.__mul__: coefficients multiply, exponents add (exact while the
\* coefficient has at most 28 digits, the precision of the default context)
DecimalMul(a, b) == [coeff |-> a.coeff * b.coeff, exp |-> a.exp + b.exp]

RECURSIVE DigitsOf(_)
DigitsOf(n) ==
    IF n < 10 THEN <<Digit(n)>> ELSE Append(DigitsOf(n \div 10), Digit(n % 10))

RECURSIVE Pad(_, _)
Pad(digits, width) ==
    IF Len(digits) >= width THEN digits ELSE Pad(<<"0">> \o digits, width)

\* Decimal.__str__ for a non-negative value with exponent <= 0: plain notation
DecimalStr(d) ==
    LET places == 0 - d.exp
        digits == Pad(DigitsOf(d.coeff), places + 1)
        n == Len(digits)
    IN IF places = 0 THEN digits
       ELSE SubSeq(digits, 1, n - places) \o <<".">> \o SubSeq(digits, n - places + 1, n)

\* line 147
PriceTotal(p, q) == DecimalStr(DecimalMul(Decimal(p), DecimalOfInt(q)))

\* a single-request call: nothing of the other operations' locals is live
SimpleCall(name) ==
    /\ op' = name
    /\ FreshBuy
    /\ FreshList
    /\ UNCHANGED <<loginVars, sharedVars>>

\* a rate limit seen in every answer that is not OK
RateLimited_AnyError(st) == st # HTTP_OK

\* lines 46 and 57: response.status_code == HTTPStatus.TOO_MANY_REQUESTS
RateLimited(st) == st = TOO_MANY_REQUESTS

\* lines 45-49 and 56-60: the price queries after the request was built
PriceQuery(name, url) ==
    /\ SimpleCall(name)
    /\ pc' = "done"
    /\ asset' = ""
    /\ order' = None
    /\ \/ /\ log' = <<Get(url, 0, 0, NO_STATUS)>>
          /\ result' = TransportError
          /\ reply' = None
          /\ returned_reply' = None
       \/ \E r \in Replies :
          /\ log' = <<Get(url, 0, 0, r.status)>>
          /\ reply' = Some(r)
          /\ IF RateLimited(r.status)
             THEN /\ result' = Raise("TooManyRequests", "price", None)
                  /\ returned_reply' = None
             ELSE /\ result' = Return
                  /\ returned_reply' = Some(r)

\* fetch_price carries no login_required decorator
FetchPrice ==
    /\ Idle
    /\ PriceQuery("fetch_price", "priceoverview")

FetchPriceHistory ==
    /\ Idle
    /\ LoginRequired("fetch_price_history", PriceQuery("fetch_price_history", "pricehistory"))

\* a delegation that does not look at the success indicator
SellNeedsConfirmation_IgnoreSuccess(r) ==
    r.needs_mobile_confirmation \/ r.pending_message

\* lines 127-128
SellNeedsConfirmation(r) ==
    r.needs_mobile_confirmation \/ (r.success \in {None, Some(0)} /\ r.pending_message)

\* lines 116-131
CreateSellOrderBody ==
    /\ SimpleCall("create_sell_order")
    /\ \E a \in Assets : asset' = a
    /\ order' = None
    /\ \/ /\ log' = <<Post("sellitem", "", NO_STATUS)>>
          /\ result' = TransportError
          /\ pc' = "done"
          /\ reply' = None
          /\ returned_reply' = None
       \/ \E r \in Replies :
          /\ log' = <<Post("sellitem", "", r.status)>>
          /\ reply' = Some(r)
          /\ IF SellNeedsConfirmation(r)
             THEN /\ pc' = "sell_confirm"
                  /\ result' = NoResult
                  /\ returned_reply' = None
             ELSE /\ pc' = "done"
                  /\ result' = Return
                  /\ returned_reply' = Some(r)

CreateSellOrder ==
    /\ Idle
    /\ LoginRequired("create_sell_order", CreateSellOrderBody)

\* lines 246-250: _confirm_sell_listing, whose result create_sell_order returns
ConfirmSellListing ==
    /\ pc = "sell_confirm"
    /\ pc' = "done"
    /\ \/ /\ log' = Append(log, Failed(ConfirmSell(asset), "ConfirmationExpected"))
          /\ result' = Raise("ConfirmationExpected", "confirm_sell_listing", None)
          /\ UNCHANGED returned_reply
       \/ \E r \in SellConfirmResults :
          /\ log' = Append(log, ConfirmSell(asset))
          /\ result' = Return
          /\ returned_reply' = Some(r)
    /\ UNCHANGED <<loginVars, sharedVars, op, buyVars, listVars, asset, reply, order>>

\* an order taken as accepted on any truthy success indicator
OrderAccepted_Truthy(r) == r.success \notin {None, Some(0)}

\* lines 156 and 241: the negation of (success := response.get('success')) != 1
OrderAccepted(r) == r.success = Some(CANONICAL_SUCCESS)

\* lines 156-161 and 241-244: success != 1 raises with the raw value
OrderOutcome(r, site) ==
    IF ~OrderAccepted(r)
    THEN /\ result' = Raise("ApiException", site, r.success)
         /\ returned_reply' = None
    ELSE /\ result' = Return
         /\ returned_reply' = Some(r)

\* a POST whose parsed body decides the outcome
OrderCall(name, url, site) ==
    /\ SimpleCall(name)
    /\ pc' = "done"
    /\ asset' = ""
    /\ \/ /\ log' = <<Post(url, "", NO_STATUS)>>
          /\ result' = TransportError
          /\ reply' = None
          /\ returned_reply' = None
       \/ \E r \in Replies :
          /\ log' = <<Post(url, "", r.status)>>
          /\ reply' = Some(r)
          /\ OrderOutcome(r, site)

\* lines 142-161
CreateBuyOrderBody ==
    /\ \E p \in Prices, q \in Quantities :
        order' = Some([price_single_item |-> p, quantity |-> q,
                       price_total |-> PriceTotal(p, q)])
    /\ OrderCall("create_buy_order", "createbuyorder", "creating_order")

CreateBuyOrder ==
    /\ Idle
    /\ LoginRequired("create_buy_order", CreateBuyOrderBody)

\* lines 237-244
CancelBuyOrderBody ==
    /\ order' = None
    /\ OrderCall("cancel_buy_order", "cancelbuyorder", "canceling_order")

CancelBuyOrder ==
    /\ Idle
    /\ LoginRequired("cancel_buy_order", CancelBuyOrderBody)

\* lines 227-233: returns None; only the status is read
CancelSellOrderBody ==
    /\ SimpleCall("cancel_sell_order")
    /\ pc' = "done"
    /\ asset' = ""
    /\ reply' = None
    /\ order' = None
    /\ returned_reply' = None
    /\ \/ /\ log' = <<Post("removelisting", "", NO_STATUS)>>
          /\ result' = TransportError
       \/ \E st \in Statuses :
          /\ log' = <<Post("removelisting", "", st)>>
          /\ result' = IF StatusFails(st)
                       THEN Raise("ApiException", "removing_listing", None)
                       ELSE Return

CancelSellOrder ==
    /\ Idle
    /\ LoginRequired("cancel_sell_order", CancelSellOrderBody)

\* the caller has taken the outcome; the object is ready for the next call
ReturnToCaller ==
    /\ pc = "done"
    /\ pc' = "idle"
    /\ op' = "none"
    /\ log' = <<>>
    /\ result' = NoResult
    /\ FreshBuy
    /\ FreshList
    /\ FreshSimple
    /\ UNCHANGED <<loginVars, sharedVars>>

Next ==
    \/ SetLoginExecuted
    \/ BuyItem
    \/ BuyGetConfirmations
    \/ BuySendConfirmation
    \/ BuyResubmit
    \/ GetMyMarketListings
    \/ ListingsBulk
    \/ ListingsPage
    \/ FetchPrice
    \/ FetchPriceHistory
    \/ CreateSellOrder
    \/ ConfirmSellListing
    \/ CreateBuyOrder
    \/ CancelBuyOrder
    \/ CancelSellOrder
    \/ ReturnToCaller

Spec == Init /\ [][Next]_vars

\* ====================================== two callers sharing one account
\* One caller runs create_sell_order, the other buy_item, on the same logged-in
\* object. The class takes no lock; whether the callers take turns is theirs
\* to decide. The confirmation service keeps the account's outstanding
\* confirmations: (kind, originating asset or listing).
SellConfirmation(asset_id) == [kind |-> "sell", ref |-> asset_id]
BuyConfirmation == [kind |-> "buy", ref |-> "listing"]
Creator(c) == IF c.kind = "sell" THEN "create_sell_order" ELSE "buy_item"
Consumed(c, call) == [confirmation |-> c, by |-> call]

\* a caller that serialises starts a call only while the other is in none
MayStart(other_pc) == serialised => other_pc \in {"idle", "done"}

\* lines 126-131: the sell request; the marketplace holds the listing back
\* behind a mobile confirmation exactly when its answer says so
SellerSubmit ==
    /\ was_login_executed
    /\ seller_pc = "idle"
    /\ MayStart(buyer_pc)
    /\ \E a \in Assets, r \in Replies :
        /\ seller_asset' = a
        /\ IF SellNeedsConfirmation(r)
           THEN /\ seller_pc' = "sell_confirm"
                /\ pending' = pending \cup {SellConfirmation(a)}
                /\ UNCHANGED seller_outcome
           ELSE /\ seller_pc' = "done"
                /\ seller_outcome' = "return"
                /\ UNCHANGED pending
    /\ UNCHANGED <<callVars, serialised, buyer_pc, buyer_confirmations, buyer_outcome, consumed>>

\* a targeted confirm that accepts whatever is outstanding
SellerConfirm_AcceptAll ==
    /\ seller_pc = "sell_confirm"
    /\ seller_pc' = "done"
    /\ seller_outcome' = "return"
    /\ pending' = {}
    /\ consumed' = consumed \cup {Consumed(c, "create_sell_order") : c \in pending}
    /\ UNCHANGED <<callVars, serialised, seller_asset, buyer_pc, buyer_confirmations, buyer_outcome>>

\* lines 246-250: confirm_sell_listing(asset_id) accepts the confirmation of
\* this asset, raises ConfirmationExpected when the account has none for it,
\* and may fail on the way
SellerConfirm ==
    /\ seller_pc = "sell_confirm"
    /\ seller_pc' = "done"
    /\ IF SellConfirmation(seller_asset) \in pending
       THEN \/ /\ seller_outcome' = "return"
               /\ pending' = pending \ {SellConfirmation(seller_asset)}
               /\ consumed' = consumed \cup
                    {Consumed(SellConfirmation(seller_asset), "create_sell_order")}
            \/ /\ seller_outcome' = "Exception"
               /\ UNCHANGED <<pending, consumed>>
       ELSE /\ seller_outcome' = "ConfirmationExpected"
            /\ UNCHANGED <<pending, consumed>>
    /\ UNCHANGED <<callVars, serialised, seller_asset, buyer_pc, buyer_confirmations, buyer_outcome>>

\* lines 196-206: the purchase request; an answer that asks for a
\* confirmation leaves one outstanding at the service
BuyerSubmit ==
    /\ was_login_executed
    /\ buyer_pc = "idle"
    /\ MayStart(seller_pc)
    /\ \E r \in BuyResponses :
        IF WalletSuccess(r)
        THEN /\ buyer_pc' = "done"
             /\ buyer_outcome' = "return"
             /\ UNCHANGED pending
        ELSE IF ConfirmationRequested(r) = "yes"
        THEN /\ buyer_pc' = "buy_get_confirmations"
             /\ pending' = pending \cup {BuyConfirmation}
             /\ UNCHANGED buyer_outcome
        ELSE /\ buyer_pc' = "done"
             /\ buyer_outcome' = IF ConfirmationRequested(r) = "AttributeError"
                                 THEN "AttributeError" ELSE "ApiException"
             /\ UNCHANGED pending
    /\ UNCHANGED <<callVars, serialised, seller_pc, seller_asset, seller_outcome,
                   buyer_confirmations, consumed>>

\* line 167: every confirmation outstanding at this moment
BuyerGetConfirmations ==
    /\ buyer_pc = "buy_get_confirmations"
    /\ \/ /\ buyer_pc' = "done"
          /\ buyer_outcome' = "ApiException"
          /\ UNCHANGED buyer_confirmations
       \/ /\ buyer_confirmations' = pending
          /\ buyer_pc' = IF pending = {} THEN "buy_resubmit" ELSE "buy_send_confirmation"
          /\ UNCHANGED buyer_outcome
    /\ UNCHANGED <<callVars, serialised, seller_pc, seller_asset, seller_outcome, pending, consumed>>

\* lines 168-169: one iteration; the service accepts a confirmation that is
\* still outstanding, and answers or fails on one that is gone
BuyerSendConfirmation ==
    /\ buyer_pc = "buy_send_confirmation"
    /\ \E c \in buyer_confirmations :
        \/ /\ buyer_pc' = "done"
           /\ buyer_outcome' = "ApiException"
           /\ UNCHANGED <<buyer_confirmations, pending, consumed>>
        \/ /\ buyer_confirmations' = buyer_confirmations \ {c}
           /\ buyer_pc' = IF buyer_confirmations = {c} THEN "buy_resubmit"
                          ELSE "buy_send_confirmation"
           /\ IF c \in pending
              THEN /\ pending' = pending \ {c}
                   /\ consumed' = consumed \cup {Consumed(c, "buy_item")}
              ELSE UNCHANGED <<pending, consumed>>
           /\ UNCHANGED buyer_outcome
    /\ UNCHANGED <<callVars, serialised, seller_pc, seller_asset, seller_outcome>>

\* lines 208-213
BuyerResubmit ==
    /\ buyer_pc = "buy_resubmit"
    /\ buyer_pc' = "done"
    /\ \E ok \in BOOLEAN : buyer_outcome' = IF ok THEN "return" ELSE "ApiException"
    /\ UNCHANGED <<callVars, serialised, seller_pc, seller_asset, seller_outcome,
                   buyer_confirmations, pending, consumed>>

\* the object after login, shared by two callers who serialise or do not
InitShared ==
    /\ was_login_executed = TRUE
    /\ \E login \in Logins :
        /\ steam_guard = Some(login[1])
        /\ session_id = Some(login[2])
    /\ NoCall
    /\ serialised \in BOOLEAN
    /\ NoCallers

NextShared ==
    \/ SellerSubmit
    \/ SellerConfirm
    \/ BuyerSubmit
    \/ BuyerGetConfirmations
    \/ BuyerSendConfirmation
    \/ BuyerResubmit

SpecShared == InitShared /\ [][NextShared]_vars

\* ================================================================== claims
IsPurchase(e) == e.type = "POST" /\ e.url = "buylisting"
PurchaseIdx == {i \in 1..Len(log) : IsPurchase(log[i])}
Resubmissions == {i \in PurchaseIdx : i > 1}
ListIdx == {i \in 1..Len(log) : log[i].type = "LIST"}
AcceptIdx == {i \in 1..Len(log) : log[i].type = "ACCEPT"}
BulkIdx == {i \in 1..Len(log) : log[i].url = "mylistings/render"}
PageIdx == {i \in 1..Len(log) : log[i].url = "mylistings"}
CeilPages(n) == IF n <= 0 THEN 0 ELSE (n + 99) \div 100

\* the first response asks for a confirmation and carries a usable id
PendingFirstResponse ==
    /\ op = "buy_item"
    /\ response # None
    /\ response[1].success = Some(22)
    /\ response[1].confirmation.type = "object"
    /\ response[1].confirmation.confirmation_id \notin {None, Some("")}

\* C1 as stated: after a first response with success == 22 and a confirmation
\* id, every resubmission is preceded by a call of the service's accept and
\* carries the confirmation id, also when the service lists no confirmation.
C1_AcceptBeforeResubmission ==
    PendingFirstResponse =>
        \A i \in Resubmissions :
            /\ \E j \in 1..(i - 1) : log[j].type = "ACCEPT"
            /\ log[i].confirmation = response[1].confirmation.confirmation_id[1]

\* C1 amended: every resubmission is preceded by the listing of the
\* outstanding confirmations and by one accept per listed confirmation (none
\* when the list is empty), and carries the confirmation id of the first
\* response in its payload.
C1_ConfirmBeforeResubmission ==
    PendingFirstResponse =>
        \A i \in Resubmissions :
            /\ \E j \in 1..(i - 1) :
                /\ log[j].type = "LIST"
                /\ Cardinality({k \in (j + 1)..(i - 1) : log[k].type = "ACCEPT"}) = log[j].count
            /\ log[i].confirmation = response[1].confirmation.confirmation_id[1]

C1_Witness ==
    /\ PendingFirstResponse
    /\ Resubmissions # {}
    /\ \E j \in ListIdx : log[j].count = 0
    /\ AcceptIdx = {}

\* C2: a first response whose wallet_info.success is 1 is returned as it is,
\* with the first purchase request as the only request or service call.
C2_WalletSuccessReturns ==
    (/\ op = "buy_item"
     /\ response # None
     /\ response[1].wallet_info.success = Some(1))
    => /\ pc = "done"
       /\ result = Return
       /\ returned = response
       /\ log = <<Post("buylisting", "0", HTTP_OK)>>

C2_Witness ==
    /\ PendingFirstResponse
    /\ response[1].wallet_info.success = Some(1)
    /\ result = Return

\* C3: a buy_item call sends at most two purchase requests and lists the
\* confirmations at most once; once the resubmission is answered the call is
\* over and returns exactly that answer.
C3_AtMostTwoPurchases ==
    op = "buy_item" =>
        /\ Cardinality(PurchaseIdx) <= 2
        /\ Cardinality(ListIdx) <= 1
        /\ final_response # None =>
            /\ pc = "done"
            /\ result = Return
            /\ returned = final_response
            /\ Cardinality(PurchaseIdx) = 2
            /\ IsPurchase(log[Len(log)])

C3_Witness ==
    /\ op = "buy_item"
    /\ final_response # None
    /\ final_response[1].success = Some(22)
    /\ final_response[1].confirmation.confirmation_id = Some("c1")
    /\ final_response[1].wallet_info.type = "absent"
    /\ result = Return

\* C4: a first response with success == 22 whose confirmation block has the
\* wrong type ends the call with the invalid-confirmation-data error and with
\* no other error kind.
C4_InvalidConfirmationIsConfirmationError ==
    (/\ op = "buy_item"
     /\ pc = "done"
     /\ response # None
     /\ response[1].success = Some(22)
     /\ response[1].wallet_info.success # Some(1)
     /\ response[1].confirmation.type = "null")
    => /\ result.kind = "raise"
       /\ result.exc = "ApiException"
       /\ result.site = "invalid_confirmation_data"

\* C5: a first response with neither the wallet success nor (success == 22 and
\* a confirmation id) fails with ApiException carrying the response's message,
\* or the wallet_info message when there is no top-level message, after the
\* first purchase request alone.
C5_FailureIsApiError ==
    (/\ op = "buy_item"
     /\ pc = "done"
     /\ response # None
     /\ response[1].wallet_info.success # Some(1)
     /\ ~(/\ response[1].success = Some(22)
          /\ response[1].confirmation.confirmation_id \notin {None, Some("")}))
    => /\ result.kind = "raise"
       /\ result.exc = "ApiException"
       /\ result.site = "failed_to_buy"
       /\ result.message =
            IF response[1].message \in {None, Some("")} /\ response[1].wallet_info.type = "object"
            THEN response[1].wallet_info.message
            ELSE response[1].message
       /\ log = <<Post("buylisting", "0", HTTP_OK)>>

SessionOperations ==
    {"fetch_price_history", "get_my_market_listings", "create_sell_order",
     "create_buy_order", "buy_item", "cancel_sell_order", "cancel_buy_order"}

\* C6: while no login was executed, a call of any session-requiring operation
\* ends with LoginRequired and has issued no request and no service call.
C6_NotLoggedInNoRequest ==
    (~was_login_executed /\ op \in SessionOperations)
    => /\ pc = "done"
       /\ result.kind = "raise"
       /\ result.exc = "LoginRequired"
       /\ log = <<>>

C6_Witness ==
    /\ ~was_login_executed
    /\ op = "buy_item"
    /\ result.exc = "LoginRequired"

MarkersSeen == op = "get_my_market_listings" /\ has_markers

\* C7: with the markers present, a bulk request is issued (once, from offset
\* n_showing, count -1, and with no page request) exactly when
\* n_showing < n_total < 1000; otherwise only page requests are issued.
C7_BulkIffBelowLimit ==
    MarkersSeen =>
        LET below == n_showing < n_total /\ n_total < 1000 IN
        /\ BulkIdx # {} =>
            /\ below
            /\ PageIdx = {}
            /\ Cardinality(BulkIdx) = 1
            /\ \A i \in BulkIdx : log[i].start = n_showing /\ log[i].count = -1
        /\ PageIdx # {} => ~below
        /\ (below /\ pc = "done") => Cardinality(BulkIdx) = 1
        /\ (~below /\ pc = "done" /\ n_total > 0) => PageIdx # {}

C7_Witness ==
    /\ MarkersSeen
    /\ n_total = 999
    /\ BulkIdx # {}
    /\ result = Return

\* C8: in the paginated plan no page request has an offset >= n_total, and a
\* call that returns has issued ceil((n_total - n_showing) / 100) page requests.
C8_PagesStopAtTotal ==
    (MarkersSeen /\ ~(n_showing < n_total /\ n_total < 1000)) =>
        /\ \A i \in PageIdx : log[i].start < n_total
        /\ result = Return => Cardinality(PageIdx) = CeilPages(n_total - n_showing)

\* C9: with n_showing = 0 and n_total >= 1000 the requests after the landing
\* page are page requests of size 100 at offsets 0, 100, 200, ...; a call that
\* returns has issued ceil(n_total / 100) of them and returns a collection whose
\* sell-listing ids are the ids of the inline page and of all fetched pages.
C9_PagesFromZero ==
    (MarkersSeen /\ n_showing = 0 /\ n_total >= 1000) =>
        /\ \A k \in 2..Len(log) :
            /\ log[k].url = "mylistings"
            /\ log[k].start = (k - 2) * 100
            /\ log[k].count = 100
        /\ Len(log) <= 1 + CeilPages(n_total)
        /\ result = Return =>
            /\ Len(log) = 1 + CeilPages(n_total)
            /\ returned_listings # None
            /\ DOMAIN returned_listings[1].sell_listings = fetched_keys

C9_Witness ==
    /\ MarkersSeen
    /\ n_showing = 0
    /\ n_total = 1500
    /\ result = Return
    /\ Len(log) = 16
    /\ log[16].start = 1400
    /\ fetched_keys # {}

\* C10: a request of get_my_market_listings answered with a status other than
\* 200 is the last request of the call, which fails with ApiException and
\* hands no collection to the caller.
C10_NonOkFailsWhole ==
    op = "get_my_market_listings" =>
        \A i \in 1..Len(log) :
            (log[i].type = "GET" /\ log[i].status \notin {200, NO_STATUS}) =>
                /\ i = Len(log)
                /\ pc = "done"
                /\ result = Raise("ApiException", "listings_http", None)
                /\ returned_listings = None

C10_Witness ==
    /\ op = "get_my_market_listings"
    /\ Len(log) >= 3
    /\ log[Len(log)].status = 500
    /\ log[Len(log)].url = "mylistings"
    /\ listings.sell_listings # <<>>
    /\ result.kind = "raise"
    /\ returned_listings = None

\* C11: a fetch that is merged overlays the running sell listings: ids of the
\* fetch take the fetch's value, ids only in the running collection keep
\* theirs, and no id seen in any earlier fetch of the call is ever missing.
C11_OverlayOnMerge ==
    /\ [](op = "get_my_market_listings" => fetched_keys \subseteq DOMAIN listings.sell_listings)
    /\ [][(/\ pc \in {"listings_bulk", "listings_page"}
           /\ result'.kind # "raise")
          => /\ listings_2' # None
             /\ LET old == listings.sell_listings
                    new == listings'.sell_listings
                    later == listings_2'[1].sell_listings
                IN /\ DOMAIN new = (DOMAIN old) \cup (DOMAIN later)
                   /\ \A k \in DOMAIN later : new[k] = later[k]
                   /\ \A k \in (DOMAIN old) \ (DOMAIN later) : new[k] = old[k]]_vars

C11_Witness ==
    /\ op = "get_my_market_listings"
    /\ Len(log) >= 3
    /\ listings_2 # None
    /\ 1 \in DOMAIN listings_2[1].sell_listings
    /\ 2 \in DOMAIN listings.sell_listings
    /\ 2 \notin DOMAIN listings_2[1].sell_listings
    /\ listings.sell_listings[1] = listings_2[1].sell_listings[1]

\* a step of get_my_market_listings that merges a bulk or page fetch
MergeStep ==
    /\ pc \in {"listings_bulk", "listings_page"}
    /\ result'.kind # "raise"

\* C12 as stated: a merged fetch leaves the buy listings as the union of the
\* earlier buy listings and the buy listings of the fetch.
C12_BuyListingsUnioned ==
    [][MergeStep =>
        listings'.buy_listings = listings.buy_listings \cup listings_2'[1].buy_listings]_vars

\* C12 amended: a merged fetch leaves the buy listings exactly as they were;
\* the collection returned carries the buy listings of the landing page only.
C12_BuyListingsKept ==
    [][MergeStep => listings'.buy_listings = listings.buy_listings]_vars

C12_Witness ==
    /\ op = "get_my_market_listings"
    /\ result = Return
    /\ listings_2 # None
    /\ listings_2[1].buy_listings = {"b1"}
    /\ returned_listings # None
    /\ returned_listings[1].buy_listings = {}

\* C13: when the landing page is fetched and shows no markers, the landing
\* page is the only request and its inline collection is returned as it is.
C13_NoMarkersNoPagination ==
    (/\ op = "get_my_market_listings"
     /\ log # <<>>
     /\ log[1].status = 200
     /\ ~has_markers)
    => /\ Len(log) = 1
       /\ pc = "done"
       /\ result = Return
       /\ listings_2 = None
       /\ returned_listings = Some(listings)
       /\ fetched_keys = DOMAIN listings.sell_listings

C13_Witness ==
    /\ op = "get_my_market_listings"
    /\ ~has_markers
    /\ result = Return
    /\ Len(log) = 1
    /\ returned_listings # None
    /\ DOMAIN returned_listings[1].sell_listings = {1, 2}

RECURSIVE Pow10(_)
Pow10(n) == IF n <= 0 THEN 1 ELSE 10 * Pow10(n - 1)

\* line 128 spelled out on the parsed answer to the sell request
DelegationCondition(r) ==
    \/ r.needs_mobile_confirmation
    \/ (r.success \in {None, Some(0)} /\ r.pending_message)

C15_OrderReturnsIffCanonical ==
    (op \in {"create_buy_order", "cancel_buy_order"} /\ reply # None) =>
        /\ pc = "done"
        /\ Len(log) = 1
        /\ IF reply[1].success = Some(1)
           THEN /\ result = Return
                /\ returned_reply = reply
           ELSE /\ result.kind = "raise"
                /\ result.exc = "ApiException"
                /\ result.site = (IF op = "create_buy_order" THEN "creating_order"
                                  ELSE "canceling_order")
                /\ result.message = reply[1].success
                /\ returned_reply = None

C15_Witness ==
    /\ op = "create_buy_order"
    /\ reply # None
    /\ reply[1].status = 200
    /\ reply[1].success = None
    /\ result.kind = "raise"
    /\ result.message = None

\* C16 as stated: once the session identifier and the guard record are set,
\* no step changes either of them, a further _set_login_executed included.
C16_SessionContextImmutable ==
    [][(session_id # None /\ steam_guard # None)
       => UNCHANGED <<session_id, steam_guard>>]_vars

\* C16 amended: the session identifier and the guard record are changed by
\* _set_login_executed only, between two calls and both together; no market
\* operation changes them, while every further _set_login_executed call
\* overwrites them with the pair it is given.
C16_OnlySetLoginChanges ==
    [][(<<steam_guard, session_id>>' # <<steam_guard, session_id>>)
       => /\ pc = "idle"
          /\ UNCHANGED <<op, pc, log, result>>
          /\ was_login_executed'
          /\ steam_guard' # None
          /\ session_id' # None
          /\ <<steam_guard'[1], session_id'[1]>> \in Logins]_vars

C16_Witness ==
    /\ steam_guard = Some("g2")
    /\ session_id = Some("s2")
    /\ op = "cancel_sell_order"
    /\ pc = "done"
    /\ result = Return

\* C17: fetch_price raises the rate-limit error exactly when the status is
\* 429, whatever the body holds, and otherwise returns the parsed body, logged
\* in or not; fetch_price_history without a login fails before any request.
C17_RateLimitedIff429 ==
    /\ (op = "fetch_price" /\ reply # None) =>
        /\ pc = "done"
        /\ log = <<Get("priceoverview", 0, 0, reply[1].status)>>
        /\ IF reply[1].status = 429
           THEN /\ result = Raise("TooManyRequests", "price", None)
                /\ returned_reply = None
           ELSE /\ result = Return
                /\ returned_reply = reply
    /\ op = "fetch_price" => result.exc # "LoginRequired"
    /\ (op = "fetch_price_history" /\ ~was_login_executed) =>
        /\ log = <<>>
        /\ result = Raise("LoginRequired", "login_required", None)

C17_Witness ==
    /\ op = "fetch_price"
    /\ ~was_login_executed
    /\ reply # None
    /\ reply[1].status = 429
    /\ reply[1].success = Some(1)
    /\ result.exc = "TooManyRequests"

\* C18: the price_total sent by create_buy_order is, as a decimal number,
\* exactly the unit price times the quantity.
C18_PriceTotalExact ==
    (op = "create_buy_order" /\ order # None) =>
        LET p == Decimal(order[1].price_single_item)
            t == Decimal(order[1].price_total)
            q == order[1].quantity
        IN /\ log # <<>>
           /\ t.coeff * Pow10(0 - p.exp) = p.coeff * q * Pow10(0 - t.exp)

C18_Witness ==
    /\ op = "create_buy_order"
    /\ order # None
    /\ order[1].price_single_item = <<"0", ".", "3", "3">>
    /\ order[1].quantity = 3
    /\ order[1].price_total = <<"0", ".", "9", "9">>
    /\ log # <<>>

\* listing or accept calls of the confirmation service that raised
FailedIdx == {i \in ListIdx \cup AcceptIdx : log[i].raised # ""}

\* C19: in buy_item a failed listing or a failed accept is the last thing
\* the call does: nothing is accepted or resubmitted after it and the call
\* raises ApiException; a resubmission follows only a listing and one accept
\* of each listed confirmation, none of which failed.
C19_FailureStopsConfirmation ==
    op = "buy_item" =>
        /\ \A i \in FailedIdx :
            /\ i = Len(log)
            /\ pc = "done"
            /\ result.kind = "raise"
            /\ result.exc = "ApiException"
            /\ Resubmissions = {}
        /\ \A j \in Resubmissions :
            /\ \A i \in FailedIdx : i > j
            /\ \E k \in ListIdx :
                /\ k < j
                /\ Cardinality({a \in AcceptIdx : k < a /\ a < j}) = log[k].count

C19_Witness ==
    /\ op = "buy_item"
    /\ Len(log) = 3
    /\ log[2] = ServiceCall("LIST", 2)
    /\ log[3].type = "ACCEPT"
    /\ log[3].raised = "Exception"
    /\ confirmations = 2
    /\ pc = "done"
    /\ result.exc = "ApiException"
    /\ result.site = "second_confirmation_step"

====
